---- MODULE Spec2Model ----
(***************************************************************************)
(* Model of Watch/Application/Adc.c (MetaWatch WDS11x, IAR / MSP430).      *)
(*                                                                         *)
(* One 12-bit converter is shared by three conversion cycles (hardware     *)
(* configuration, battery sense, light sense) under a FreeRTOS mutex.      *)
(* Battery and light readings go into ten-slot rings; LowBatteryMonitor    *)
(* compares the battery average against two thresholds kept in NV memory.  *)
(* unsigned int is 16 bits wide on the target, so every unsigned int       *)
(* result is reduced modulo 2^16.                                          *)
(***************************************************************************)
EXTENDS Integers, Sequences, FiniteSets, TLC

(***************************************************************************)
(* Program constants                                                       *)
(***************************************************************************)
MAX_SAMPLES == 10
DEFAULT_LOW_BATTERY_WARNING_LEVEL == 3500
DEFAULT_LOW_BATTERY_BTOFF_LEVEL == 3300
\* number of values of an unsigned int (16 bits on the MSP430)
UINT_RANGE == 65536
\* largest count of the 12 bit converter (ADC12RES_2)
ADC_MAX_COUNT == 4095
\* ADC12CSTARTADD_x : the conversion memory register a conversion writes
ADC12CSTARTADD_0 == 0
ADC12CSTARTADD_1 == 1
ADC12CSTARTADD_2 == 2

(***************************************************************************)
(* Bounds of the model                                                     *)
(***************************************************************************)
\* tasks that may call the conversion cycles
NumTasks == 2
\* magnitude (mV) of the small battery calibration offsets, one of each sign
MaxCalibration == 20
\* publishes (battery + light) after which SpecFill starts no further cycle
MaxFillCycles == 10
\* battery cycles after which SpecMonitor starts no further cycle
MaxMonitorCycles == 3
MaxSetCalls == 1

Tasks == 1..NumTasks
Channels == {"hw", "batt", "light"}
SampleSlots == 0..(MAX_SAMPLES - 1)
Absent == -1

(***************************************************************************)
(* Pure functions                                                          *)
(***************************************************************************)
ToUInt(x) == x % UINT_RANGE

\* CONVERSION_FACTOR = 2.5*10000.0/4096.0 = 25000 * 2^-12 is exact in binary
\* floating point and so is its product with a count below 2^12; the cast
\* to unsigned int truncates.
AdcCountsToVoltage_ScaleBy4095(Counts) == ToUInt((Counts * 25000) \div 4095)
AdcCountsToVoltage(Counts) == ToUInt((Counts * 25000) \div 4096)

\* CONVERSION_FACTOR_BATTERY = (62600*2.5*1000)/(4095*24300) = 313000/199017
\* in lowest terms.  For 0 < Counts <= 4095 the exact product is at least
\* 1/199017 away from every integer, far more than the rounding error of the
\* two double operations, so the truncated double equals the exact floor.
AdcCountsToBatteryVoltage(Counts) == ToUInt((Counts * 313000) \div 199017)

CalibratedBatterySense_IgnoreValid(value, valid, offset) == ToUInt(value + offset)
\* BatterySense += GetBatteryCalibrationValue() when QueryCalibrationValid()
CalibratedBatterySense(value, valid, offset) ==
  IF valid THEN ToUInt(value + offset) ELSE value

\* Samples[Index++] = value; if ( Index >= MAX_SAMPLES ) { Index = 0; Ready = 1; }
NextSampleIndex_NoWrap(Index) == Index + 1
NextSampleIndex(Index) == IF Index + 1 >= MAX_SAMPLES THEN 0 ELSE Index + 1

NextAverageReady_Early(Index, Ready) == IF Index + 1 >= MAX_SAMPLES - 1 THEN 1 ELSE Ready
NextAverageReady(Index, Ready) == IF Index + 1 >= MAX_SAMPLES THEN 1 ELSE Ready

RECURSIVE SampleTotal(_, _)
\* for (i = 0; i < n; i++) SampleTotal += Samples[i];   (unsigned int)
SampleTotal(Samples, n) ==
  IF n = 0 THEN 0 ELSE ToUInt(SampleTotal(Samples, n - 1) + Samples[n - 1])

\* body shared by ReadBatterySenseAverage and ReadLightSenseAverage
SenseAverage(Ready, Samples, Sense) ==
  IF Ready # 0 THEN SampleTotal(Samples, MAX_SAMPLES) \div MAX_SAMPLES ELSE Sense

\* xSemaphoreGive on a mutex (a queue of length one): fails when already given
MutexGive(count) == IF count < 1 THEN count + 1 ELSE count

\* the last MAX_SAMPLES published values, oldest first (history of publishes)
Publish(hist, value) ==
  LET h == Append(hist, value)
  IN IF Len(h) > MAX_SAMPLES THEN Tail(h) ELSE h

RECURSIVE SumSeq(_)
SumSeq(s) == IF s = <<>> THEN 0 ELSE Head(s) + SumSeq(Tail(s))

(***************************************************************************)
(* State                                                                   *)
(***************************************************************************)
VARIABLES
  AdcHardwareMutex,             \* 1: available, 0: taken
  pc, kind, released,           \* per task: position, cycle it runs, gives of the cycle
  ADC12ON, ADC12ENC, ADC12BUSY, ADC12CSTARTADD, ADC12MEM,
  SensorEnabled,                \* channels whose sense path is powered
  LpmDisabled,                  \* TaskDelayLpmDisable() in force
  HardwareConfiguration, BatterySense, LightSense,
  BatterySenseSamples, LightSenseSamples,
  BatterySenseSampleIndex, LightSenseSampleIndex,
  BatterySenseAverageReady, LightSenseAverageReady,
  LowBatteryWarningMessageSent, LowBatteryBtOffMessageSent,
  LowBatteryWarningLevel, LowBatteryBtOffLevel,
  Nv,                           \* persistent store: item id -> value or Absent
  PowerGood, CalibrationValid, BatteryCalibrationValue,
  hwHist, battHist, lightHist,  \* history: values published per channel
  sent, monEntry,               \* history: messages and entry state of the last monitor pass
  btOffSincePG, warnSincePG,    \* history: alerts routed since the last power-good pass
  nvAtBoot,                     \* history: the store as the last initialization found it
  lastSet                       \* history: the last SetBatteryLevels call, and a restart after it

taskVars == <<AdcHardwareMutex, pc, kind, released>>
adcVars == <<ADC12ON, ADC12ENC, ADC12BUSY, ADC12CSTARTADD, ADC12MEM, SensorEnabled, LpmDisabled>>
hwCfgVars == <<HardwareConfiguration, hwHist>>
battVars == <<BatterySense, BatterySenseSamples, BatterySenseSampleIndex,
              BatterySenseAverageReady, battHist>>
lightVars == <<LightSense, LightSenseSamples, LightSenseSampleIndex,
               LightSenseAverageReady, lightHist>>
latchVars == <<LowBatteryWarningMessageSent, LowBatteryBtOffMessageSent>>
levelVars == <<LowBatteryWarningLevel, LowBatteryBtOffLevel, Nv, nvAtBoot, lastSet>>
monVars == <<sent, monEntry, btOffSincePG, warnSincePG>>
envVars == <<PowerGood, CalibrationValid, BatteryCalibrationValue>>

vars == <<taskVars, adcVars, hwCfgVars, battVars, lightVars, latchVars, levelVars,
          monVars, envVars>>

(***************************************************************************)
(* Persistent store (OSAL_Nv): an item is created with the caller's value  *)
(* when it does not exist and read into the caller's buffer when it does.  *)
(***************************************************************************)
NVID_LOW_BATTERY_WARNING_LEVEL == "NVID_LOW_BATTERY_WARNING_LEVEL"
NVID_LOW_BATTERY_BTOFF_LEVEL == "NVID_LOW_BATTERY_BTOFF_LEVEL"
NvIds == {NVID_LOW_BATTERY_WARNING_LEVEL, NVID_LOW_BATTERY_BTOFF_LEVEL}

\* the store after OsalNvItemInit(id, len, &buf), and the buffer after it
OsalNvItemInit(nv, id, buf) ==
  IF nv[id] = Absent
    THEN [nv |-> [nv EXCEPT ![id] = buf], buf |-> buf]
    ELSE [nv |-> nv, buf |-> nv[id]]

\* the store after OsalNvWrite(id, 0, len, &buf)
OsalNvWrite(nv, id, buf) == [nv EXCEPT ![id] = buf]

InitializeLowBatteryLevels_SwappedDefaults(nv) ==
  LET w == OsalNvItemInit(nv, NVID_LOW_BATTERY_WARNING_LEVEL,
                          DEFAULT_LOW_BATTERY_BTOFF_LEVEL)
      b == OsalNvItemInit(w.nv, NVID_LOW_BATTERY_BTOFF_LEVEL,
                          DEFAULT_LOW_BATTERY_WARNING_LEVEL)
  IN [nv |-> b.nv, warning |-> w.buf, btoff |-> b.buf]
\* InitializeLowBatteryLevels from store nv: the store and the two levels after it
InitializeLowBatteryLevels(nv) ==
  LET w == OsalNvItemInit(nv, NVID_LOW_BATTERY_WARNING_LEVEL,
                          DEFAULT_LOW_BATTERY_WARNING_LEVEL)
      b == OsalNvItemInit(w.nv, NVID_LOW_BATTERY_BTOFF_LEVEL,
                          DEFAULT_LOW_BATTERY_BTOFF_LEVEL)
  IN [nv |-> b.nv, warning |-> w.buf, btoff |-> b.buf]

\* the levels SetBatteryLevels computes from pData[0], pData[1] (here pData[1], pData[2])
SetBatteryLevelsValues(pData) ==
  [warning |-> ToUInt(pData[1] * 100), btoff |-> ToUInt(pData[2] * 100)]

\* monEntry before the first pass of LowBatteryMonitor
NoMonitorPass == [pg |-> FALSE, avg |-> Absent, warning |-> 0, btoff |-> 0,
                  warningLevel |-> 0, btoffLevel |-> 0]
\* lastSet before the first call of SetBatteryLevels
NoSet == [pData |-> <<>>, restarted |-> FALSE, calls |-> 0]
\* lastSet after a call with pData; the calls are counted up to MaxSetCalls
SetRecorded(last, pData) ==
  [pData |-> pData, restarted |-> FALSE,
   calls |-> IF last.calls < MaxSetCalls THEN last.calls + 1 ELSE last.calls]

(***************************************************************************)
(* InitializeAdc, run after the C start-up has zeroed the statics, on the  *)
(* store nv0 that a previous life of the device left behind.               *)
(***************************************************************************)
InitializeAdc(nv0) ==
  LET levels == InitializeLowBatteryLevels(nv0)
  IN [AdcHardwareMutex |-> MutexGive(1),
      ADC12CSTARTADD |-> ADC12CSTARTADD_0,
      HardwareConfiguration |-> 0, BatterySense |-> 0, LightSense |-> 0,
      BatterySenseSamples |-> [i \in SampleSlots |-> 0],
      LightSenseSamples |-> [i \in SampleSlots |-> 0],
      BatterySenseSampleIndex |-> 0, LightSenseSampleIndex |-> 0,
      BatterySenseAverageReady |-> 0, LightSenseAverageReady |-> 0,
      LowBatteryWarningMessageSent |-> 0, LowBatteryBtOffMessageSent |-> 0,
      LowBatteryWarningLevel |-> levels.warning,
      LowBatteryBtOffLevel |-> levels.btoff,
      Nv |-> levels.nv]

InitializeAdcFrom(nv0, pg, valid, offset) ==
  LET s == InitializeAdc(nv0)
  IN /\ AdcHardwareMutex = s.AdcHardwareMutex
     /\ pc = [t \in Tasks |-> "idle"]
     /\ kind = [t \in Tasks |-> "none"]
     /\ released = [t \in Tasks |-> "none"]
     /\ ADC12ON = FALSE /\ ADC12ENC = FALSE /\ ADC12BUSY = FALSE
     /\ ADC12CSTARTADD = s.ADC12CSTARTADD
     /\ ADC12MEM = [r \in 0..2 |-> 0]
     /\ SensorEnabled = {}
     /\ LpmDisabled = FALSE
     /\ HardwareConfiguration = s.HardwareConfiguration
     /\ BatterySense = s.BatterySense
     /\ LightSense = s.LightSense
     /\ BatterySenseSamples = s.BatterySenseSamples
     /\ LightSenseSamples = s.LightSenseSamples
     /\ BatterySenseSampleIndex = s.BatterySenseSampleIndex
     /\ LightSenseSampleIndex = s.LightSenseSampleIndex
     /\ BatterySenseAverageReady = s.BatterySenseAverageReady
     /\ LightSenseAverageReady = s.LightSenseAverageReady
     /\ LowBatteryWarningMessageSent = s.LowBatteryWarningMessageSent
     /\ LowBatteryBtOffMessageSent = s.LowBatteryBtOffMessageSent
     /\ LowBatteryWarningLevel = s.LowBatteryWarningLevel
     /\ LowBatteryBtOffLevel = s.LowBatteryBtOffLevel
     /\ Nv = s.Nv
     /\ nvAtBoot = nv0
     /\ lastSet = NoSet
     /\ PowerGood = pg /\ CalibrationValid = valid /\ BatteryCalibrationValue = offset
     /\ hwHist = <<>> /\ battHist = <<>> /\ lightHist = <<>>
     /\ sent = <<>> /\ monEntry = NoMonitorPass
     /\ btOffSincePG = 0 /\ warnSincePG = 0

\* the device restarts: the statics are zeroed, the tasks start afresh and
\* InitializeAdc runs on the store as it is
Restart ==
  LET s == InitializeAdc(Nv)
  IN /\ AdcHardwareMutex' = s.AdcHardwareMutex
     /\ pc' = [t \in Tasks |-> "idle"]
     /\ kind' = [t \in Tasks |-> "none"]
     /\ released' = [t \in Tasks |-> "none"]
     /\ ADC12ON' = FALSE /\ ADC12ENC' = FALSE /\ ADC12BUSY' = FALSE
     /\ ADC12CSTARTADD' = s.ADC12CSTARTADD
     /\ ADC12MEM' = [r \in 0..2 |-> 0]
     /\ SensorEnabled' = {}
     /\ LpmDisabled' = FALSE
     /\ HardwareConfiguration' = s.HardwareConfiguration
     /\ BatterySense' = s.BatterySense
     /\ LightSense' = s.LightSense
     /\ BatterySenseSamples' = s.BatterySenseSamples
     /\ LightSenseSamples' = s.LightSenseSamples
     /\ BatterySenseSampleIndex' = s.BatterySenseSampleIndex
     /\ LightSenseSampleIndex' = s.LightSenseSampleIndex
     /\ BatterySenseAverageReady' = s.BatterySenseAverageReady
     /\ LightSenseAverageReady' = s.LightSenseAverageReady
     /\ LowBatteryWarningMessageSent' = s.LowBatteryWarningMessageSent
     /\ LowBatteryBtOffMessageSent' = s.LowBatteryBtOffMessageSent
     /\ LowBatteryWarningLevel' = s.LowBatteryWarningLevel
     /\ LowBatteryBtOffLevel' = s.LowBatteryBtOffLevel
     /\ Nv' = s.Nv
     /\ nvAtBoot' = Nv
     /\ lastSet' = IF lastSet = NoSet THEN NoSet ELSE [lastSet EXCEPT !.restarted = TRUE]
     /\ hwHist' = <<>> /\ battHist' = <<>> /\ lightHist' = <<>>
     /\ sent' = <<>> /\ monEntry' = NoMonitorPass
     /\ btOffSincePG' = 0 /\ warnSincePG' = 0
     /\ UNCHANGED envVars

EmptyNv == [id \in NvIds |-> Absent]
\* GetBatteryCalibrationValue() is added to a 16 bit unsigned int, so it acts
\* by its residue modulo 2^16 and every offset has the effect of one in
\* -2^15 .. 2^15 - 1: both ends of that range and a small offset of each sign
CalibrationOffsets ==
  {-(UINT_RANGE \div 2), -MaxCalibration, MaxCalibration, UINT_RANGE \div 2 - 1}

\* first start of a device: empty store, calibration data absent or present
Init ==
  \E valid \in BOOLEAN : \E offset \in CalibrationOffsets :
    /\ (~valid => offset = MaxCalibration)
    /\ InitializeAdcFrom(EmptyNv, FALSE, valid, offset)

(***************************************************************************)
(* Accessors                                                               *)
(***************************************************************************)
ReadBatterySense == BatterySense
ReadBatterySenseAverage ==
  SenseAverage(BatterySenseAverageReady, BatterySenseSamples, BatterySense)
ReadLightSense == LightSense
ReadLightSenseAverage ==
  SenseAverage(LightSenseAverageReady, LightSenseSamples, LightSense)
ReadHardwareConfiguration == HardwareConfiguration

(***************************************************************************)
(* Conversion cycles.  A task is at "idle" outside a cycle; inside one it  *)
(* is at "enable", "settle" (light only), "start", "wait", "poll",         *)
(* "finish", "end", the step it takes next.                                *)
(***************************************************************************)
InputChannel(k) ==
  CASE k = "hw" -> ADC12CSTARTADD_0
    [] k = "batt" -> ADC12CSTARTADD_1
    [] k = "light" -> ADC12CSTARTADD_2

Goto(t, p) == pc' = [pc EXCEPT ![t] = p]

CycleTake_NoWait(t, k) ==
  /\ pc[t] = "idle"
  /\ AdcHardwareMutex' = 0
  /\ Goto(t, "enable")
  /\ kind' = [kind EXCEPT ![t] = k]
  /\ released' = [released EXCEPT ![t] = "no"]
  /\ UNCHANGED <<adcVars, hwCfgVars, battVars, lightVars, latchVars, levelVars,
                 monVars, envVars>>
\* xSemaphoreTake(AdcHardwareMutex, portMAX_DELAY) at the head of a cycle:
\* the caller blocks until the mutex is available
CycleTake(t, k) ==
  /\ pc[t] = "idle"
  /\ AdcHardwareMutex = 1
  /\ AdcHardwareMutex' = 0
  /\ Goto(t, "enable")
  /\ kind' = [kind EXCEPT ![t] = k]
  /\ released' = [released EXCEPT ![t] = "no"]
  /\ UNCHANGED <<adcVars, hwCfgVars, battVars, lightVars, latchVars, levelVars,
                 monVars, envVars>>

\* HARDWARE_CFG_SENSE_ENABLE / BATTERY_SENSE_ENABLE; ENABLE_REFERENCE is empty
SenseEnable_ThenSettle(t) ==
  /\ pc[t] = "enable" /\ kind[t] \in {"hw", "batt"}
  /\ SensorEnabled' = SensorEnabled \cup {kind[t]}
  /\ LpmDisabled' = TRUE
  /\ Goto(t, "settle")
  /\ UNCHANGED <<AdcHardwareMutex, kind, released, ADC12ON, ADC12ENC, ADC12BUSY,
                 ADC12CSTARTADD, ADC12MEM, hwCfgVars, battVars,
                 lightVars, latchVars, levelVars, monVars, envVars>>
SenseEnable(t) ==
  /\ pc[t] = "enable" /\ kind[t] \in {"hw", "batt"}
  /\ SensorEnabled' = SensorEnabled \cup {kind[t]}
  /\ Goto(t, "start")
  /\ UNCHANGED <<AdcHardwareMutex, kind, released, ADC12ON, ADC12ENC, ADC12BUSY,
                 ADC12CSTARTADD, ADC12MEM, LpmDisabled, hwCfgVars, battVars,
                 lightVars, latchVars, levelVars, monVars, envVars>>

\* LIGHT_SENSOR_L_GAIN; TaskDelayLpmDisable; the task sleeps in vTaskDelay(10)
LightSenseEnable(t) ==
  /\ pc[t] = "enable" /\ kind[t] = "light"
  /\ SensorEnabled' = SensorEnabled \cup {"light"}
  /\ LpmDisabled' = TRUE
  /\ Goto(t, "settle")
  /\ UNCHANGED <<AdcHardwareMutex, kind, released, ADC12ON, ADC12ENC, ADC12BUSY,
                 ADC12CSTARTADD, ADC12MEM, hwCfgVars, battVars,
                 lightVars, latchVars, levelVars, monVars, envVars>>

\* vTaskDelay(10) returns; TaskDelayLpmEnable
LightSettleDone(t) ==
  /\ pc[t] = "settle"
  /\ LpmDisabled' = FALSE
  /\ Goto(t, "start")
  /\ UNCHANGED <<AdcHardwareMutex, kind, released, ADC12ON, ADC12ENC, ADC12BUSY,
                 ADC12CSTARTADD, ADC12MEM, SensorEnabled, hwCfgVars, battVars,
                 lightVars, latchVars, levelVars, monVars, envVars>>

\* Start*Conversion: CLEAR_START_ADDR; ADC12CTL1 |= ADC12CSTARTADD_x; ENABLE_ADC
StartConversion(t) ==
  /\ pc[t] = "start"
  /\ ADC12CSTARTADD' = InputChannel(kind[t])
  /\ ADC12ON' = TRUE /\ ADC12ENC' = TRUE /\ ADC12BUSY' = TRUE
  /\ Goto(t, "wait")
  /\ UNCHANGED <<AdcHardwareMutex, kind, released, ADC12MEM, SensorEnabled,
                 LpmDisabled, hwCfgVars, battVars, lightVars, latchVars,
                 levelVars, monVars, envVars>>

\* the converter finishes the conversion with count c
AdcConversionDone(c) ==
  /\ ADC12BUSY
  /\ ADC12BUSY' = FALSE
  /\ ADC12MEM' = [ADC12MEM EXCEPT ![ADC12CSTARTADD] = c]
  /\ UNCHANGED <<taskVars, ADC12ON, ADC12ENC, ADC12CSTARTADD, SensorEnabled,
                 LpmDisabled, hwCfgVars, battVars, lightVars, latchVars,
                 levelVars, monVars, envVars>>

WaitForAdcBusyEnter_NoLpmDisable(t) ==
  /\ pc[t] = "wait"
  /\ Goto(t, "poll")
  /\ UNCHANGED <<AdcHardwareMutex, kind, released, adcVars, hwCfgVars, battVars,
                 lightVars, latchVars, levelVars, monVars, envVars>>
\* WaitForAdcBusy: TaskDelayLpmDisable, then the loop is entered
WaitForAdcBusyEnter(t) ==
  /\ pc[t] = "wait"
  /\ LpmDisabled' = TRUE
  /\ Goto(t, "poll")
  /\ UNCHANGED <<AdcHardwareMutex, kind, released, ADC12ON, ADC12ENC, ADC12BUSY,
                 ADC12CSTARTADD, ADC12MEM, SensorEnabled, hwCfgVars, battVars,
                 lightVars, latchVars, levelVars, monVars, envVars>>

WaitForAdcBusyExit_NoWait(t) ==
  /\ pc[t] = "poll"
  /\ LpmDisabled' = FALSE
  /\ Goto(t, "finish")
  /\ UNCHANGED <<AdcHardwareMutex, kind, released, ADC12ON, ADC12ENC, ADC12BUSY,
                 ADC12CSTARTADD, ADC12MEM, SensorEnabled, hwCfgVars, battVars,
                 lightVars, latchVars, levelVars, monVars, envVars>>
\* WaitForAdcBusy: the loop yields (vTaskDelay(0)) while ADC12BUSY is set and
\* is left, with TaskDelayLpmEnable, once it is clear
WaitForAdcBusyExit(t) ==
  /\ pc[t] = "poll"
  /\ ~ADC12BUSY
  /\ LpmDisabled' = FALSE
  /\ Goto(t, "finish")
  /\ UNCHANGED <<AdcHardwareMutex, kind, released, ADC12ON, ADC12ENC, ADC12BUSY,
                 ADC12CSTARTADD, ADC12MEM, SensorEnabled, hwCfgVars, battVars,
                 lightVars, latchVars, levelVars, monVars, envVars>>

\* FinishHardwareCfgCycle up to its call of EndAdcCycle
FinishHardwareCfgCycle(t) ==
  /\ pc[t] = "finish" /\ kind[t] = "hw"
  /\ HardwareConfiguration' = AdcCountsToVoltage(ADC12MEM[0])
  /\ hwHist' = <<AdcCountsToVoltage(ADC12MEM[0])>>
  /\ SensorEnabled' = SensorEnabled \ {"hw"}
  /\ ADC12ENC' = FALSE /\ ADC12ON' = FALSE
  /\ Goto(t, "end")
  /\ UNCHANGED <<AdcHardwareMutex, kind, released, ADC12BUSY, ADC12CSTARTADD,
                 ADC12MEM, LpmDisabled, battVars, lightVars, latchVars, levelVars,
                 monVars, envVars>>

\* FinishBatterySenseCycle up to its call of EndAdcCycle
FinishBatterySenseCycle(t) ==
  /\ pc[t] = "finish" /\ kind[t] = "batt"
  /\ LET value == CalibratedBatterySense(AdcCountsToBatteryVoltage(ADC12MEM[1]),
                                         CalibrationValid, BatteryCalibrationValue)
     IN /\ BatterySense' = value
        /\ BatterySenseSamples' =
             [BatterySenseSamples EXCEPT ![BatterySenseSampleIndex] = value]
        /\ battHist' = Publish(battHist, value)
  /\ BatterySenseSampleIndex' = NextSampleIndex(BatterySenseSampleIndex)
  /\ BatterySenseAverageReady' =
       NextAverageReady(BatterySenseSampleIndex, BatterySenseAverageReady)
  /\ SensorEnabled' = SensorEnabled \ {"batt"}
  /\ Goto(t, "end")
  /\ UNCHANGED <<AdcHardwareMutex, kind, released, ADC12ON, ADC12ENC, ADC12BUSY,
                 ADC12CSTARTADD, ADC12MEM, LpmDisabled, hwCfgVars, lightVars,
                 latchVars, levelVars, monVars, envVars>>

\* FinishLightSenseCycle up to its call of EndAdcCycle
FinishLightSenseCycle(t) ==
  /\ pc[t] = "finish" /\ kind[t] = "light"
  /\ LET value == AdcCountsToVoltage(ADC12MEM[2])
     IN /\ LightSense' = value
        /\ LightSenseSamples' =
             [LightSenseSamples EXCEPT ![LightSenseSampleIndex] = value]
        /\ lightHist' = Publish(lightHist, value)
  /\ LightSenseSampleIndex' = NextSampleIndex(LightSenseSampleIndex)
  /\ LightSenseAverageReady' =
       NextAverageReady(LightSenseSampleIndex, LightSenseAverageReady)
  /\ SensorEnabled' = SensorEnabled \ {"light"}
  /\ Goto(t, "end")
  /\ UNCHANGED <<AdcHardwareMutex, kind, released, ADC12ON, ADC12ENC, ADC12BUSY,
                 ADC12CSTARTADD, ADC12MEM, LpmDisabled, hwCfgVars, battVars,
                 latchVars, levelVars, monVars, envVars>>

EndAdcCycle_NoGive(t) ==
  /\ pc[t] = "end"
  /\ ADC12ENC' = FALSE /\ ADC12ON' = FALSE
  /\ Goto(t, "idle")
  /\ kind' = [kind EXCEPT ![t] = "none"]
  /\ UNCHANGED <<AdcHardwareMutex, released, ADC12BUSY, ADC12CSTARTADD, ADC12MEM,
                 SensorEnabled, LpmDisabled, hwCfgVars, battVars, lightVars,
                 latchVars, levelVars, monVars, envVars>>
\* EndAdcCycle: DISABLE_ADC; xSemaphoreGive; the cycle returns to its caller
EndAdcCycle(t) ==
  /\ pc[t] = "end"
  /\ ADC12ENC' = FALSE /\ ADC12ON' = FALSE
  /\ AdcHardwareMutex' = MutexGive(AdcHardwareMutex)
  /\ released' = [released EXCEPT ![t] = IF @ = "no" THEN "once" ELSE "twice"]
  /\ Goto(t, "idle")
  /\ kind' = [kind EXCEPT ![t] = "none"]
  /\ UNCHANGED <<ADC12BUSY, ADC12CSTARTADD, ADC12MEM, SensorEnabled, LpmDisabled,
                 hwCfgVars, battVars, lightVars, latchVars, levelVars, monVars,
                 envVars>>

\* the steps all three cycles share
SharedStep(t) ==
  \/ StartConversion(t)
  \/ WaitForAdcBusyEnter(t)
  \/ WaitForAdcBusyExit(t)
  \/ EndAdcCycle(t)

\* BatterySenseCycle after the mutex is taken
BatteryCycleStep(t) ==
  \/ SenseEnable(t)
  \/ SharedStep(t)
  \/ FinishBatterySenseCycle(t)

\* the steps only LightSenseCycle takes
LightStep(t) ==
  \/ LightSenseEnable(t)
  \/ LightSettleDone(t)
  \/ FinishLightSenseCycle(t)

\* every step of a cycle after the mutex is taken
CycleStep(t) ==
  \/ BatteryCycleStep(t)
  \/ LightStep(t)
  \/ FinishHardwareCfgCycle(t)

(***************************************************************************)
(* LowBatteryMonitor                                                       *)
(***************************************************************************)
\* a message built by SetupMessage / SetupMessageAndAllocateBuffer: its
\* payload is written by this module
Message(type, payload) ==
  [Type |-> type, Payload |-> payload, pData |-> Absent, Length |-> 0]
\* a message built by UTL_BuildHstMsg(pMsg, type, NO_MSG_OPTIONS, pData, Length):
\* its payload is Length bytes copied from the address pData
HostMessage(type, pData, Length) ==
  [Type |-> type, Payload |-> <<>>, pData |-> pData, Length |-> Length]

TurnRadioOn == <<Message("TurnRadioOnMsg", <<>>)>>
\* tSetVibrateModePayload: Enable, OnDurationLsb, OnDurationMsb,
\* OffDurationLsb, OffDurationMsb, NumberOfCycles
BtOffVibrate == Message("SetVibrateMode", <<1, 0, 1, 0, 1, 5>>)
WarningVibrate == Message("SetVibrateMode", <<1, 0, 2, 0, 2, 5>>)
\* the three messages routed for a BtOff alert; the host message is built
\* with pData = (unsigned char*)BatteryAverage, the average as an address
BtOffGroup(BatteryAverage) ==
  <<HostMessage("LowBatteryBtOffMsgHost", BatteryAverage, 2),
    Message("LowBatteryBtOffMsg", <<>>), BtOffVibrate>>
\* the three messages routed for a Warning alert
WarningGroup(BatteryAverage) ==
  <<HostMessage("LowBatteryWarningMsgHost", BatteryAverage, 2),
    Message("LowBatteryWarningMsg", <<>>), WarningVibrate>>

\* the words the two bytes at an address may hold when UTL_BuildHstMsg
\* copies them: the program stores nothing at the address the average
\* names, so every word, at each copy
MemoryWords == 0..(UINT_RANGE - 1)
\* the bytes copied from a location that holds word, low byte first
BytesOf(word) == <<word % 256, word \div 256>>

ResumeDue_AnyLatch(pg, btoffSent, warningSent) == pg /\ (btoffSent # 0 \/ warningSent # 0)
\* if ( QueryPowerGood() ) { if ( LowBatteryBtOffMessageSent ) ...TurnRadioOnMsg
ResumeDue(pg, btoffSent, warningSent) == pg /\ btoffSent # 0

BtOffDue_Resend(pg, average, level, btoffSent) == ~pg /\ average < level
\* else: BatteryAverage < LowBatteryBtOffLevel && LowBatteryBtOffMessageSent == 0
BtOffDue(pg, average, level, btoffSent) == ~pg /\ average < level /\ btoffSent = 0

WarningDue_Reversed(pg, average, level, warningSent) ==
  ~pg /\ average > level /\ warningSent = 0
\* else: BatteryAverage < LowBatteryWarningLevel && LowBatteryWarningMessageSent == 0
WarningDue(pg, average, level, warningSent) == ~pg /\ average < level /\ warningSent = 0

\* the flag after the pass: cleared under power good, set with the alert
MessageSentAfter(pg, due, wasSent) == IF pg THEN 0 ELSE IF due THEN 1 ELSE wasSent

RoutedMessages_WarningFirst(resume, btoff, warning, BatteryAverage) ==
  (IF resume THEN TurnRadioOn ELSE <<>>)
    \o (IF warning THEN WarningGroup(BatteryAverage) ELSE <<>>)
    \o (IF btoff THEN BtOffGroup(BatteryAverage) ELSE <<>>)
\* the messages of one pass in the order of their RouteMsg calls
RoutedMessages(resume, btoff, warning, BatteryAverage) ==
  (IF resume THEN TurnRadioOn ELSE <<>>)
    \o (IF btoff THEN BtOffGroup(BatteryAverage) ELSE <<>>)
    \o (IF warning THEN WarningGroup(BatteryAverage) ELSE <<>>)

\* alerts counted since the last power-good pass; the count stops at 2
CountSincePG(pg, due, count) ==
  IF pg THEN 0 ELSE IF due /\ count < 2 THEN count + 1 ELSE count

LowBatteryMonitor ==
    LET BatteryAverage == ReadBatterySenseAverage
        resume == ResumeDue(PowerGood, LowBatteryBtOffMessageSent,
                            LowBatteryWarningMessageSent)
        btoff == BtOffDue(PowerGood, BatteryAverage, LowBatteryBtOffLevel,
                          LowBatteryBtOffMessageSent)
        warning == WarningDue(PowerGood, BatteryAverage, LowBatteryWarningLevel,
                              LowBatteryWarningMessageSent)
    IN /\ LowBatteryBtOffMessageSent' =
            MessageSentAfter(PowerGood, btoff, LowBatteryBtOffMessageSent)
       /\ LowBatteryWarningMessageSent' =
            MessageSentAfter(PowerGood, warning, LowBatteryWarningMessageSent)
       /\ sent' = RoutedMessages(resume, btoff, warning, BatteryAverage)
       /\ monEntry' = [pg |-> PowerGood, avg |-> BatteryAverage,
                       warning |-> LowBatteryWarningMessageSent,
                       btoff |-> LowBatteryBtOffMessageSent,
                       warningLevel |-> LowBatteryWarningLevel,
                       btoffLevel |-> LowBatteryBtOffLevel]
       /\ btOffSincePG' = CountSincePG(PowerGood, btoff, btOffSincePG)
       /\ warnSincePG' = CountSincePG(PowerGood, warning, warnSincePG)
       /\ UNCHANGED <<taskVars, adcVars, hwCfgVars, battVars, lightVars, levelVars,
                      envVars>>

\* the charger is connected or removed: QueryPowerGood() changes
PowerGoodChange ==
  /\ PowerGood' = ~PowerGood
  /\ UNCHANGED <<taskVars, adcVars, hwCfgVars, battVars, lightVars, latchVars,
                 levelVars, monVars, CalibrationValid, BatteryCalibrationValue>>

(***************************************************************************)
(* SetBatteryLevels                                                        *)
(***************************************************************************)
SetBatteryLevels_WarningItemTwice(pData) ==
  LET levels == SetBatteryLevelsValues(pData)
  IN /\ LowBatteryWarningLevel' = levels.warning
     /\ LowBatteryBtOffLevel' = levels.btoff
     /\ Nv' = OsalNvWrite(OsalNvWrite(Nv, NVID_LOW_BATTERY_WARNING_LEVEL, levels.warning),
                          NVID_LOW_BATTERY_WARNING_LEVEL, levels.btoff)
     /\ lastSet' = SetRecorded(lastSet, pData)
     /\ UNCHANGED <<taskVars, adcVars, hwCfgVars, battVars, lightVars, latchVars,
                    nvAtBoot, monVars, envVars>>
SetBatteryLevels_ClearsLatches(pData) ==
  LET levels == SetBatteryLevelsValues(pData)
  IN /\ LowBatteryWarningLevel' = levels.warning
     /\ LowBatteryBtOffLevel' = levels.btoff
     /\ Nv' = OsalNvWrite(OsalNvWrite(Nv, NVID_LOW_BATTERY_WARNING_LEVEL, levels.warning),
                          NVID_LOW_BATTERY_BTOFF_LEVEL, levels.btoff)
     /\ lastSet' = SetRecorded(lastSet, pData)
     /\ LowBatteryWarningMessageSent' = 0
     /\ LowBatteryBtOffMessageSent' = 0
     /\ UNCHANGED <<taskVars, adcVars, hwCfgVars, battVars, lightVars,
                    nvAtBoot, monVars, envVars>>
SetBatteryLevels(pData) ==
  LET levels == SetBatteryLevelsValues(pData)
  IN /\ LowBatteryWarningLevel' = levels.warning
     /\ LowBatteryBtOffLevel' = levels.btoff
     /\ Nv' = OsalNvWrite(OsalNvWrite(Nv, NVID_LOW_BATTERY_WARNING_LEVEL, levels.warning),
                          NVID_LOW_BATTERY_BTOFF_LEVEL, levels.btoff)
     /\ lastSet' = SetRecorded(lastSet, pData)
     /\ UNCHANGED <<taskVars, adcVars, hwCfgVars, battVars, lightVars, latchVars,
                    nvAtBoot, monVars, envVars>>

(***************************************************************************)
(* Spec: the tasks call the three cycles in any interleaving.              *)
(***************************************************************************)
CountsTasks == {2226}

Next ==
  \/ \E t \in Tasks : \E k \in Channels : CycleTake(t, k)
  \/ \E t \in Tasks : CycleStep(t)
  \/ \E c \in CountsTasks : AdcConversionDone(c)

Spec == Init /\ [][Next]_vars

\* the same tasks under a fair scheduler and a converter that finishes every
\* conversion it has started
FairInit == Init /\ ~CalibrationValid

FairSpec ==
  /\ FairInit
  /\ [][Next]_vars
  /\ \A t \in Tasks : WF_vars(CycleStep(t))
  /\ WF_vars(\E c \in CountsTasks : AdcConversionDone(c))

(***************************************************************************)
(* SpecBattery: one caller runs battery cycles without end.                *)
(***************************************************************************)
Caller == CHOOSE t \in Tasks : TRUE
\* both ends of the converter's range, 0 and full scale: a ring of ten holds
\* every arrangement of them, and with a valid calibration the ten values
\* total from 0 up to more than 2^16
CountsBattery == {0, ADC_MAX_COUNT}

BatteryNext ==
  \/ CycleTake(Caller, "batt")
  \/ BatteryCycleStep(Caller)
  \/ \E c \in CountsBattery : AdcConversionDone(c)

SpecBattery == Init /\ [][BatteryNext]_vars

(***************************************************************************)
(* SpecFill: one caller fills the battery and the light ring; no cycle is  *)
(* started once MaxFillCycles values have been published.                  *)
(***************************************************************************)
CountsLight == {91, ADC_MAX_COUNT}

FillInit == Init /\ CalibrationValid /\ BatteryCalibrationValue = MaxCalibration

FillTake(k) ==
  /\ Len(battHist) + Len(lightHist) < MaxFillCycles
  /\ CycleTake(Caller, k)

FillNext ==
  \/ \E k \in {"batt", "light"} : FillTake(k)
  \/ BatteryCycleStep(Caller)
  \/ LightStep(Caller)
  \/ \E c \in CountsBattery : ADC12CSTARTADD = ADC12CSTARTADD_1 /\ AdcConversionDone(c)
  \/ \E c \in CountsLight : ADC12CSTARTADD = ADC12CSTARTADD_2 /\ AdcConversionDone(c)

SpecFill == FillInit /\ [][FillNext]_vars

(***************************************************************************)
(* SpecMonitor: battery cycles, the charger and LowBatteryMonitor passes   *)
(* in any order; no cycle is started once MaxMonitorCycles battery values  *)
(* have been published.                                                    *)
(***************************************************************************)
\* counts of about 3.2 V, 3.4 V and 3.7 V: below both default levels,
\* between them, above both
CountsMonitor == {2035, 2162, 2353}

MonitorInit == Init /\ ~CalibrationValid

MonitorTake ==
  /\ Len(battHist) < MaxMonitorCycles
  /\ CycleTake(Caller, "batt")

MonitorNext ==
  \/ MonitorTake
  \/ BatteryCycleStep(Caller)
  \/ \E c \in CountsMonitor : AdcConversionDone(c)
  \/ LowBatteryMonitor
  \/ PowerGoodChange

SpecMonitor == MonitorInit /\ [][MonitorNext]_vars

(***************************************************************************)
(* SpecNv: a device starts on some store, SetBatteryLevels is called with  *)
(* any two bytes, MaxSetCalls times at most; the device restarts.          *)
(***************************************************************************)
Bytes == 0..255
\* stores a first start may find: empty, one item only, both items
StoresAtStart ==
  {EmptyNv,
   [EmptyNv EXCEPT ![NVID_LOW_BATTERY_WARNING_LEVEL] = 3600],
   [EmptyNv EXCEPT ![NVID_LOW_BATTERY_BTOFF_LEVEL] = 3100],
   [id \in NvIds |-> IF id = NVID_LOW_BATTERY_WARNING_LEVEL THEN 3600 ELSE 3100]}

NvInit == \E nv0 \in StoresAtStart : InitializeAdcFrom(nv0, FALSE, FALSE, MaxCalibration)

\* SetBatteryLevels is called with any two bytes, MaxSetCalls times at most
NvSet ==
  /\ lastSet.calls < MaxSetCalls
  /\ \E w, b \in Bytes : SetBatteryLevels(<<w, b>>)

NvNext ==
  \/ NvSet
  \/ Restart

SpecNv == NvInit /\ [][NvNext]_vars

(***************************************************************************)
(* SpecConvert: the first cycle after InitializeAdc, on any channel, with  *)
(* any count the converter can deliver.                                    *)
(***************************************************************************)
Counts == 0..ADC_MAX_COUNT

NothingPublished == hwHist = <<>> /\ battHist = <<>> /\ lightHist = <<>>

ConvertTake(k) ==
  /\ NothingPublished
  /\ CycleTake(Caller, k)

ConvertNext ==
  \/ \E k \in Channels : ConvertTake(k)
  \/ CycleStep(Caller)
  \/ \E c \in Counts : AdcConversionDone(c)

SpecConvert == Init /\ [][ConvertNext]_vars

(***************************************************************************)
(* Claims                                                                  *)
(***************************************************************************)
InCycle(t) == pc[t] # "idle"

\* C1: at most one task is between taking AdcHardwareMutex and giving it in
\* EndAdcCycle, and a task that is there holds the mutex: no enable, start,
\* read or disable step is taken beside another cycle.
C1_MutualExclusion ==
  /\ Cardinality({t \in Tasks : InCycle(t)}) <= 1
  /\ \A t \in Tasks : InCycle(t) => AdcHardwareMutex = 0

\* a battery cycle waits for the converter after another task has run a cycle
C1_Witness ==
  \E t, u \in Tasks :
    /\ t # u
    /\ pc[t] = "poll" /\ kind[t] = "batt" /\ ADC12BUSY
    /\ pc[u] = "idle" /\ released[u] = "once"

\* C2: a cycle that has taken the mutex reaches EndAdcCycle and gives it,
\* once; a task that is back at its caller has given the mutex exactly once
\* for the cycle, and the mutex is available when no cycle is under way.
C2_GateReleased ==
  /\ [](\A t \in Tasks : /\ pc[t] = "idle" => released[t] \in {"none", "once"}
                         /\ InCycle(t) => released[t] = "no")
  /\ []((\A t \in Tasks : pc[t] = "idle") => AdcHardwareMutex = 1)
  /\ \A t \in Tasks : InCycle(t) ~> (pc[t] = "idle" /\ released[t] = "once")

\* all three cycles have run and returned, and the mutex is available
C2_Witness ==
  /\ \A t \in Tasks : pc[t] = "idle" /\ released[t] = "once"
  /\ hwHist # <<>> /\ battHist # <<>> /\ lightHist # <<>>
  /\ AdcHardwareMutex = 1

\* C3: once ten battery values have been published, ReadBatterySenseAverage
\* is the truncated mean of the last ten published (converted and
\* calibrated) values: after the 10th cycle the mean of cycles 1..10, after
\* the k-th the mean of cycles k-9..k.
C3_BatteryAverageOfLastTen ==
  Len(battHist) = MAX_SAMPLES =>
    ReadBatterySenseAverage = SumSeq(battHist) \div MAX_SAMPLES
\* Violated where the ten values total 2^16 or more: SampleTotal is a 16 bit
\* unsigned int. Ten values of 65516 (count 0, offset -20) total 655160, which
\* wraps to 65336, and the accessor returns 6533.

LatestOf(hist) == IF hist = <<>> THEN 0 ELSE hist[Len(hist)]

\* C4: with fewer than ten values published on a channel its average
\* accessor returns the value published last, and 0 before the first cycle.
C4_AverageBeforeReady ==
  /\ Len(battHist) < MAX_SAMPLES => ReadBatterySenseAverage = LatestOf(battHist)
  /\ Len(lightHist) < MAX_SAMPLES => ReadLightSenseAverage = LatestOf(lightHist)

\* nine battery values are published, the last differing from the one before,
\* and one light value
C4_Witness ==
  /\ pc[Caller] = "idle"
  /\ Len(battHist) = MAX_SAMPLES - 1 /\ Len(lightHist) = 1
  /\ battHist[MAX_SAMPLES - 1] # battHist[MAX_SAMPLES - 2]
  /\ ReadBatterySenseAverage = battHist[MAX_SAMPLES - 1]
  /\ ReadLightSenseAverage = lightHist[1] /\ lightHist[1] # 0

\* C5: between two power-good passes of LowBatteryMonitor (or since
\* InitializeAdc) the BtOff alert is routed at most once and the Warning
\* alert at most once, whatever the average does in between.
C5_AlertsAtMostOnce == btOffSincePG <= 1 /\ warnSincePG <= 1

\* the average fell below the BtOff level, recovered above the Warning level
\* and fell again; the last pass found both flags set and routed nothing
C5_Witness ==
  /\ Len(battHist) = 3
  /\ battHist[1] < LowBatteryBtOffLevel
  /\ battHist[2] >= LowBatteryWarningLevel
  /\ battHist[3] < LowBatteryBtOffLevel
  /\ ~monEntry.pg /\ monEntry.avg = battHist[3]
  /\ monEntry.btoff = 1 /\ monEntry.warning = 1
  /\ btOffSincePG = 1 /\ warnSincePG = 1
  /\ sent = <<>>

Types(msgs) == [i \in 1..Len(msgs) |-> msgs[i].Type]
AlertTypes == {"LowBatteryBtOffMsgHost", "LowBatteryBtOffMsg",
               "LowBatteryWarningMsgHost", "LowBatteryWarningMsg", "SetVibrateMode"}

\* C6: a pass under power good leaves both flags clear, routes no BtOff and
\* no Warning message, and routes one TurnRadioOnMsg exactly when
\* LowBatteryBtOffMessageSent was set on entry (so none when only the
\* Warning flag was set, and none in a power-good pass that follows one).
C6_PowerGoodPass ==
  (monEntry.avg # Absent /\ monEntry.pg) =>
    /\ LowBatteryWarningMessageSent = 0 /\ LowBatteryBtOffMessageSent = 0
    /\ \A i \in 1..Len(sent) : sent[i].Type \notin AlertTypes
    /\ Types(sent) = IF monEntry.btoff # 0 THEN <<"TurnRadioOnMsg">> ELSE <<>>

\* a power-good pass found the BtOff flag set, with the average still below
\* both levels, and routed TurnRadioOnMsg alone
C6_Witness ==
  /\ monEntry.pg /\ monEntry.btoff = 1 /\ monEntry.warning = 1
  /\ monEntry.avg # Absent /\ monEntry.avg < monEntry.btoffLevel
  /\ Types(sent) = <<"TurnRadioOnMsg">>
  /\ LowBatteryBtOffMessageSent = 0

IsBtOffMessage(msg) ==
  msg.Type \in {"LowBatteryBtOffMsgHost", "LowBatteryBtOffMsg"} \/ msg = BtOffVibrate
IsWarningMessage(msg) ==
  msg.Type \in {"LowBatteryWarningMsgHost", "LowBatteryWarningMsg"} \/ msg = WarningVibrate

\* C7: a pass without power good that finds both flags clear and the average
\* below both levels routes one BtOff group and then one Warning group; in
\* every pass each BtOff message is routed before any Warning message.
C7_BtOffBeforeWarning ==
  /\ (/\ monEntry.avg # Absent /\ ~monEntry.pg
      /\ monEntry.btoff = 0 /\ monEntry.warning = 0
      /\ monEntry.avg < monEntry.btoffLevel /\ monEntry.avg < monEntry.warningLevel)
     => Types(sent) = <<"LowBatteryBtOffMsgHost", "LowBatteryBtOffMsg", "SetVibrateMode",
                        "LowBatteryWarningMsgHost", "LowBatteryWarningMsg", "SetVibrateMode">>
  /\ \A i, j \in 1..Len(sent) :
       (IsBtOffMessage(sent[i]) /\ IsWarningMessage(sent[j])) => i < j

\* the first pass after start-up finds the average below both levels
C7_Witness ==
  /\ ~monEntry.pg /\ monEntry.btoff = 0 /\ monEntry.warning = 0
  /\ monEntry.avg # Absent
  /\ monEntry.avg < monEntry.btoffLevel /\ monEntry.avg < monEntry.warningLevel
  /\ Len(sent) = 6 /\ sent[3] = BtOffVibrate /\ sent[6] = WarningVibrate
  /\ LowBatteryBtOffMessageSent = 1 /\ LowBatteryWarningMessageSent = 1

\* C8: SetBatteryLevels(w, b) followed by a restart (InitializeLowBatteryLevels
\* loading from the store) yields the levels w*100 and b*100.
C8_LevelsRoundTrip ==
  lastSet.restarted =>
    /\ LowBatteryWarningLevel = lastSet.pData[1] * 100
    /\ LowBatteryBtOffLevel = lastSet.pData[2] * 100

\* SetBatteryLevels(255, 0) and a restart on a store that held no items at
\* the first start: the levels are neither the defaults nor equal
C8_Witness ==
  /\ lastSet.restarted /\ lastSet.pData = <<255, 0>>
  /\ LowBatteryWarningLevel = 25500 /\ LowBatteryBtOffLevel = 0
  /\ Nv = nvAtBoot

LevelOf(id) ==
  IF id = NVID_LOW_BATTERY_WARNING_LEVEL THEN LowBatteryWarningLevel
                                          ELSE LowBatteryBtOffLevel
DefaultOf(id) ==
  IF id = NVID_LOW_BATTERY_WARNING_LEVEL THEN 3500 ELSE 3300
\* no SetBatteryLevels since the last initialization
AsInitialized == lastSet = NoSet \/ lastSet.restarted

\* C9: after initialization a level whose item the store did not hold is the
\* default (3500 / 3300) and the default is in the store; a level whose item
\* the store held equals the stored value and the store item is unchanged.
C9_LoadOrDefault ==
  AsInitialized =>
    \A id \in NvIds :
      IF nvAtBoot[id] = Absent
        THEN LevelOf(id) = DefaultOf(id) /\ Nv[id] = DefaultOf(id)
        ELSE LevelOf(id) = nvAtBoot[id] /\ Nv[id] = nvAtBoot[id]

\* a restart finds the items SetBatteryLevels(40, 30) wrote
C9_Witness ==
  /\ lastSet.restarted /\ lastSet.pData = <<40, 30>>
  /\ nvAtBoot[NVID_LOW_BATTERY_WARNING_LEVEL] = 4000
  /\ nvAtBoot[NVID_LOW_BATTERY_BTOFF_LEVEL] = 3000
  /\ LowBatteryWarningLevel = 4000 /\ LowBatteryBtOffLevel = 3000
  /\ Nv = nvAtBoot

\* the light and the hardware configuration channel publish
\* floor(count * 25000 / 4096); count 4095 gives 24993
LinearConversion ==
  /\ hwHist # <<>> =>
       /\ HardwareConfiguration = (ADC12MEM[0] * 25000) \div 4096
       /\ ADC12MEM[0] = ADC_MAX_COUNT => HardwareConfiguration = 24993
       /\ ADC12MEM[0] = 0 => HardwareConfiguration = 0
  /\ lightHist # <<>> =>
       /\ LightSense = (ADC12MEM[2] * 25000) \div 4096
       /\ lightHist = <<LightSense>>
       /\ ADC12MEM[2] = ADC_MAX_COUNT => LightSense = 24993
       /\ ADC12MEM[2] = 0 => LightSense = 0

\* C10 as claimed: ... and a cycle with count 0 publishes 0 on all three
\* channels, the battery channel included.
C10_ZeroOnAllChannels ==
  /\ LinearConversion
  /\ (battHist # <<>> /\ ADC12MEM[1] = 0) => BatterySense = 0

\* C10 as amended: for every count the light and the hardware configuration
\* channel publish floor(count * 25000 / 4096), 24993 for count 4095 and 0 for
\* count 0; a battery cycle with count 0 publishes 0 when the calibration is
\* not valid and the calibration offset (modulo 2^16) when it is.
C10_ZeroUpToCalibration ==
  /\ LinearConversion
  /\ (battHist # <<>> /\ ADC12MEM[1] = 0) =>
       /\ BatterySense = IF CalibrationValid THEN ToUInt(BatteryCalibrationValue) ELSE 0
       /\ battHist = <<BatterySense>>

\* a light cycle has published the full scale count
C10_Witness ==
  /\ pc[Caller] = "idle"
  /\ lightHist # <<>> /\ ADC12MEM[2] = ADC_MAX_COUNT
  /\ ReadLightSense = 24993

HostTypes == {"LowBatteryBtOffMsgHost", "LowBatteryWarningMsgHost"}
\* the two bytes of an unsigned int, low byte first
LittleEndian(value) == <<value % 256, value \div 256>>
\* the words the program lets the two bytes at an address hold; it has no
\* variable at the addresses LowBatteryMonitor passes
MemoryAt(address) == MemoryWords

\* C11: the host message of a BtOff or Warning alert carries the battery
\* average read at the start of the pass, low byte first, then high byte.
C11_PayloadIsAverage ==
  \A i \in 1..Len(sent) :
    sent[i].Type \in HostTypes =>
      /\ sent[i].Length = 2
      /\ \A word \in MemoryAt(sent[i].pData) :
           BytesOf(word) = LittleEndian(monEntry.avg)

\* C14: TaskDelayLpmDisable is in force while a task is in the loop of
\* WaitForAdcBusy and is lifted when the loop is left; low-power mode is
\* enabled whenever the mutex is available.
C14_LpmDisabledWhileWaiting ==
  /\ \A t \in Tasks : pc[t] = "poll" => LpmDisabled
  /\ \A t \in Tasks : pc[t] \in {"finish", "end"} => ~LpmDisabled
  /\ AdcHardwareMutex = 1 => ~LpmDisabled

\* a light cycle, past its settle delay, waits for the busy converter
C14_Witness ==
  \E t \in Tasks :
    /\ pc[t] = "poll" /\ kind[t] = "light" /\ ADC12BUSY /\ LpmDisabled
    /\ battHist # <<>>

\* C16: a cycle powers its sense path, starts the conversion, sees the
\* converter not busy, reads and publishes, powers the path down, disables
\* the converter and gives the mutex, in this order: the sample is not read
\* while ADC12BUSY is set, and with the mutex available the converter is
\* off and no sense path is powered.
C16_CycleOrder ==
  /\ \A t \in Tasks :
       /\ pc[t] = "enable" => (~ADC12ON /\ SensorEnabled = {})
       /\ pc[t] \in {"settle", "start"} => (~ADC12ON /\ SensorEnabled = {kind[t]})
       /\ pc[t] \in {"wait", "poll", "finish"} =>
            (ADC12ON /\ ADC12ENC /\ SensorEnabled = {kind[t]}
               /\ ADC12CSTARTADD = InputChannel(kind[t]))
       /\ pc[t] = "finish" => ~ADC12BUSY
       /\ pc[t] = "end" => SensorEnabled = {}
  /\ AdcHardwareMutex = 1 => (~ADC12ON /\ ~ADC12ENC /\ ~ADC12BUSY /\ SensorEnabled = {})

\* a battery cycle is about to read the sample of a finished conversion,
\* after a light cycle has run and returned
C16_Witness ==
  \E t \in Tasks :
    /\ pc[t] = "finish" /\ kind[t] = "batt" /\ ~ADC12BUSY /\ ADC12ON
    /\ SensorEnabled = {"batt"} /\ lightHist # <<>>

\* C17: once the light average is ready, ReadLightSenseAverage is the
\* truncated mean of the ten stored light samples (the total never wraps).
C17_LightAverageExact ==
  Len(lightHist) = MAX_SAMPLES =>
    ReadLightSenseAverage = SumSeq(lightHist) \div MAX_SAMPLES

\* C18: a battery cycle publishes the converted count plus the calibration
\* offset (as unsigned int) when the calibration is valid and the converted
\* count alone when it is not; the ring slot it wrote holds the value
\* ReadBatterySense returns; the light and hardware configuration cycles
\* publish the converted count without the offset.
C18_CalibrationOnBatteryOnly ==
  /\ battHist # <<>> =>
       /\ ReadBatterySense =
            IF CalibrationValid
              THEN (((ADC12MEM[1] * 313000) \div 199017) + BatteryCalibrationValue) % 65536
              ELSE (ADC12MEM[1] * 313000) \div 199017
       /\ BatterySenseSamples[(BatterySenseSampleIndex + MAX_SAMPLES - 1) % MAX_SAMPLES]
            = ReadBatterySense
  /\ lightHist # <<>> =>
       /\ ReadLightSense = (ADC12MEM[2] * 25000) \div 4096
       /\ LightSenseSamples[(LightSenseSampleIndex + MAX_SAMPLES - 1) % MAX_SAMPLES]
            = ReadLightSense
  /\ hwHist # <<>> => ReadHardwareConfiguration = (ADC12MEM[0] * 25000) \div 4096

\* a battery cycle with valid calibration has published 3200 mV plus the offset
C18_Witness ==
  /\ pc[Caller] = "idle" /\ battHist # <<>>
  /\ CalibrationValid /\ BatteryCalibrationValue = MaxCalibration
  /\ ADC12MEM[1] = 2035
  /\ ReadBatterySense = 3200 + MaxCalibration
  /\ BatterySenseSamples[0] = 3200 + MaxCalibration

(***************************************************************************)
(* SpecLevels: SpecMonitor with calls of SetBatteryLevels between the      *)
(* passes; SpecOrdered: the same with BtOff levels not above the Warning   *)
(* level only.                                                             *)
(***************************************************************************)
\* payloads <<warning, btoff>> in 0.1 V: the defaults, both levels raised,
\* both levels equal, both lowered, BtOff above Warning
LevelPairs == {<<35, 33>>, <<38, 36>>, <<36, 36>>, <<31, 30>>, <<33, 35>>}
OrderedPairs == {pData \in LevelPairs : pData[2] <= pData[1]}

LevelsSet == \E pData \in LevelPairs : SetBatteryLevels(pData)
OrderedSet == \E pData \in OrderedPairs : SetBatteryLevels(pData)

LevelsNext == MonitorNext \/ LevelsSet
OrderedNext == MonitorNext \/ OrderedSet

SpecLevels == MonitorInit /\ [][LevelsNext]_vars
SpecOrdered == MonitorInit /\ [][OrderedNext]_vars

HasWarning(msgs) == \E i \in 1..Len(msgs) : msgs[i].Type = "LowBatteryWarningMsgHost"
HasBtOff(msgs) == \E i \in 1..Len(msgs) : msgs[i].Type = "LowBatteryBtOffMsgHost"

\* C19: a call SetBatteryLevels(<<w, b>>) routes nothing and changes no
\* flag, ring, index or ready flag; every pass of LowBatteryMonitor after it
\* alerts on the average against w*100 and b*100; an alert sent under the
\* earlier levels is not sent again under the new ones.
C19_NewLevelsNextPass ==
  /\ [][lastSet' # lastSet =>
          /\ UNCHANGED <<taskVars, adcVars, hwCfgVars, battVars, lightVars,
                         latchVars, monVars, envVars>>
          /\ LowBatteryWarningLevel' = lastSet'.pData[1] * 100
          /\ LowBatteryBtOffLevel' = lastSet'.pData[2] * 100]_vars
  /\ [][(LowBatteryMonitor /\ lastSet # NoSet) =>
          /\ HasWarning(sent') <=>
               (~PowerGood /\ LowBatteryWarningMessageSent = 0
                  /\ ReadBatterySenseAverage < lastSet.pData[1] * 100)
          /\ HasBtOff(sent') <=>
               (~PowerGood /\ LowBatteryBtOffMessageSent = 0
                  /\ ReadBatterySenseAverage < lastSet.pData[2] * 100)]_vars
  /\ [](btOffSincePG <= 1 /\ warnSincePG <= 1)

\* after SetBatteryLevels(<<38, 36>>) a pass found 3700 mV, above both
\* default levels, and sent the Warning alert only
C19_Witness ==
  /\ lastSet.pData = <<38, 36>> /\ ~lastSet.restarted
  /\ ~monEntry.pg /\ monEntry.avg = 3700
  /\ monEntry.warningLevel = 3800 /\ monEntry.btoffLevel = 3600
  /\ HasWarning(sent) /\ ~HasBtOff(sent)
  /\ LowBatteryWarningMessageSent = 1 /\ LowBatteryBtOffMessageSent = 0

\* C20: with the BtOff level never above the Warning level, the BtOff flag
\* is set only with the Warning flag set, and no BtOff alert is sent since
\* the last power-good pass without a Warning alert sent since then.
C20_BtOffImpliesWarning ==
  /\ LowBatteryBtOffLevel <= LowBatteryWarningLevel
  /\ LowBatteryBtOffMessageSent = 1 => LowBatteryWarningMessageSent = 1
  /\ btOffSincePG >= 1 => warnSincePG >= 1

\* the Warning alert was sent in an earlier pass than the BtOff alert, which
\* the last pass sent under levels changed by SetBatteryLevels
C20_Witness ==
  /\ lastSet # NoSet /\ ~monEntry.pg
  /\ monEntry.warning = 1 /\ monEntry.btoff = 0
  /\ monEntry.avg < monEntry.btoffLevel
  /\ monEntry.btoffLevel <= monEntry.warningLevel
  /\ HasBtOff(sent) /\ ~HasWarning(sent)
  /\ LowBatteryBtOffMessageSent = 1 /\ LowBatteryWarningMessageSent = 1

\* with the BtOff level above the Warning level a pass sends the BtOff
\* alert alone
BtOffWithoutWarning ==
  /\ LowBatteryBtOffLevel > LowBatteryWarningLevel
  /\ LowBatteryBtOffMessageSent = 1 /\ LowBatteryWarningMessageSent = 0
  /\ btOffSincePG = 1 /\ warnSincePG = 0

(***************************************************************************)
(* SpecDevice: one caller runs battery and light cycles without end,       *)
(* between them LowBatteryMonitor passes and SetBatteryLevels calls.       *)
(***************************************************************************)
\* every conversion yields the count of about 3.4 V
CountsDevice == {2162}
DevicePairs == {<<33, 35>>}

DeviceTake == \E k \in {"batt", "light"} : CycleTake(Caller, k)
DeviceSet == \E pData \in DevicePairs : SetBatteryLevels(pData)

DeviceNext ==
  \/ DeviceTake
  \/ BatteryCycleStep(Caller)
  \/ LightStep(Caller)
  \/ \E c \in CountsDevice : AdcConversionDone(c)
  \/ LowBatteryMonitor
  \/ DeviceSet

SpecDevice == MonitorInit /\ [][DeviceNext]_vars

\* C13: between operations each write index is below MAX_SAMPLES; each
\* ready flag is set from the completion of the tenth publish of its ring
\* on, and no later cycle, LowBatteryMonitor pass, accessor or
\* SetBatteryLevels call clears it.
C13_IndexAndReady ==
  /\ BatterySenseSampleIndex \in 0..(MAX_SAMPLES - 1)
  /\ LightSenseSampleIndex \in 0..(MAX_SAMPLES - 1)
  /\ BatterySenseAverageReady = (IF Len(battHist) = MAX_SAMPLES THEN 1 ELSE 0)
  /\ LightSenseAverageReady = (IF Len(lightHist) = MAX_SAMPLES THEN 1 ELSE 0)
  /\ Len(battHist) < MAX_SAMPLES => BatterySenseSampleIndex = Len(battHist)
  /\ Len(lightHist) < MAX_SAMPLES => LightSenseSampleIndex = Len(lightHist)

\* the battery ring has wrapped and taken one more value, the light ring
\* holds three; a pass has alerted on the average of the full ring and
\* SetBatteryLevels was called
C13_Witness ==
  /\ pc[Caller] = "idle"
  /\ BatterySenseAverageReady = 1 /\ BatterySenseSampleIndex = 1
  /\ LightSenseAverageReady = 0 /\ LightSenseSampleIndex = 3
  /\ lastSet # NoSet
  /\ monEntry.avg = 3400 /\ LowBatteryBtOffMessageSent = 1

(***************************************************************************)
(* Suspension points and the statements of the finish functions            *)
(***************************************************************************)
\* positions at which a task is suspended or has not entered a cycle: before
\* and in xSemaphoreTake, in vTaskDelay(10) of LightSenseCycle, in
\* vTaskDelay(0) of WaitForAdcBusy
SuspensionPoints == {"idle", "settle", "poll"}

ReaderMayRun_Preemptive == TRUE
\* tasks run until they suspend: another task (a reader) runs only while
\* every task of this module is at a suspension point
ReaderMayRun == \A t \in Tasks : pc[t] \in SuspensionPoints

\* BatterySense = AdcCountsToBatteryVoltage(ADC12MEM1);
BatterySenseConvert(t) ==
  /\ pc[t] = "finish" /\ kind[t] = "batt"
  /\ BatterySense' = AdcCountsToBatteryVoltage(ADC12MEM[1])
  /\ Goto(t, "calibrate")
  /\ UNCHANGED <<AdcHardwareMutex, kind, released, adcVars, hwCfgVars,
                 BatterySenseSamples, BatterySenseSampleIndex,
                 BatterySenseAverageReady, battHist, lightVars,
                 latchVars, levelVars, monVars, envVars>>

\* if ( QueryCalibrationValid() ) BatterySense += GetBatteryCalibrationValue();
BatterySenseCalibrate(t) ==
  /\ pc[t] = "calibrate"
  /\ BatterySense' = CalibratedBatterySense(BatterySense, CalibrationValid,
                                            BatteryCalibrationValue)
  /\ Goto(t, "store")
  /\ UNCHANGED <<AdcHardwareMutex, kind, released, adcVars, hwCfgVars,
                 BatterySenseSamples, BatterySenseSampleIndex,
                 BatterySenseAverageReady, battHist, lightVars,
                 latchVars, levelVars, monVars, envVars>>

\* BatterySenseSamples[BatterySenseSampleIndex++] = BatterySense;
BatterySenseStore(t) ==
  /\ pc[t] = "store" /\ kind[t] = "batt"
  /\ BatterySenseSamples' =
       [BatterySenseSamples EXCEPT ![BatterySenseSampleIndex] = BatterySense]
  /\ BatterySenseSampleIndex' = BatterySenseSampleIndex + 1
  /\ Goto(t, "wrap")
  /\ UNCHANGED <<AdcHardwareMutex, kind, released, adcVars, hwCfgVars,
                 BatterySense, BatterySenseAverageReady, battHist, lightVars,
                 latchVars, levelVars, monVars, envVars>>

\* if ( Index >= MAX_SAMPLES ) { Index = 0; ... }
WrapIndex(Index) == IF Index >= MAX_SAMPLES THEN 0 ELSE Index
\* if ( Index >= MAX_SAMPLES ) { ...; AverageReady = 1; }
ReadyAtWrap(Index, Ready) == IF Index >= MAX_SAMPLES THEN 1 ELSE Ready

\* the wrap of the index, BATTERY_SENSE_DISABLE; the publish is complete
BatterySenseWrap(t) ==
  /\ pc[t] = "wrap" /\ kind[t] = "batt"
  /\ BatterySenseSampleIndex' = WrapIndex(BatterySenseSampleIndex)
  /\ BatterySenseAverageReady' =
       ReadyAtWrap(BatterySenseSampleIndex, BatterySenseAverageReady)
  /\ battHist' = Publish(battHist, BatterySense)
  /\ SensorEnabled' = SensorEnabled \ {"batt"}
  /\ Goto(t, "end")
  /\ UNCHANGED <<AdcHardwareMutex, kind, released, ADC12ON, ADC12ENC, ADC12BUSY,
                 ADC12CSTARTADD, ADC12MEM, LpmDisabled, hwCfgVars,
                 BatterySense, BatterySenseSamples, lightVars,
                 latchVars, levelVars, monVars, envVars>>

\* LightSense = AdcCountsToVoltage(ADC12MEM2);
LightSenseConvert(t) ==
  /\ pc[t] = "finish" /\ kind[t] = "light"
  /\ LightSense' = AdcCountsToVoltage(ADC12MEM[2])
  /\ Goto(t, "store")
  /\ UNCHANGED <<AdcHardwareMutex, kind, released, adcVars, hwCfgVars, battVars,
                 LightSenseSamples, LightSenseSampleIndex,
                 LightSenseAverageReady, lightHist,
                 latchVars, levelVars, monVars, envVars>>

\* LightSenseSamples[LightSenseSampleIndex++] = LightSense;
LightSenseStore(t) ==
  /\ pc[t] = "store" /\ kind[t] = "light"
  /\ LightSenseSamples' =
       [LightSenseSamples EXCEPT ![LightSenseSampleIndex] = LightSense]
  /\ LightSenseSampleIndex' = LightSenseSampleIndex + 1
  /\ Goto(t, "wrap")
  /\ UNCHANGED <<AdcHardwareMutex, kind, released, adcVars, hwCfgVars, battVars,
                 LightSense, LightSenseAverageReady, lightHist,
                 latchVars, levelVars, monVars, envVars>>

\* the wrap of the index, LIGHT_SENSOR_SHUTDOWN; the publish is complete
LightSenseWrap(t) ==
  /\ pc[t] = "wrap" /\ kind[t] = "light"
  /\ LightSenseSampleIndex' = WrapIndex(LightSenseSampleIndex)
  /\ LightSenseAverageReady' =
       ReadyAtWrap(LightSenseSampleIndex, LightSenseAverageReady)
  /\ lightHist' = Publish(lightHist, LightSense)
  /\ SensorEnabled' = SensorEnabled \ {"light"}
  /\ Goto(t, "end")
  /\ UNCHANGED <<AdcHardwareMutex, kind, released, ADC12ON, ADC12ENC, ADC12BUSY,
                 ADC12CSTARTADD, ADC12MEM, LpmDisabled, hwCfgVars, battVars,
                 LightSense, LightSenseSamples,
                 latchVars, levelVars, monVars, envVars>>

\* the finish functions statement by statement
FinishStatement(t) ==
  \/ BatterySenseConvert(t)
  \/ BatterySenseCalibrate(t)
  \/ BatterySenseStore(t)
  \/ BatterySenseWrap(t)
  \/ LightSenseConvert(t)
  \/ LightSenseStore(t)
  \/ LightSenseWrap(t)

(***************************************************************************)
(* SpecReaders: SpecFill with the finish functions taken one statement at  *)
(* a time, so that the states inside a publish exist.                      *)
(***************************************************************************)
ReadersNext ==
  \/ \E k \in {"batt", "light"} : FillTake(k)
  \/ SenseEnable(Caller)
  \/ SharedStep(Caller)
  \/ LightSenseEnable(Caller)
  \/ LightSettleDone(Caller)
  \/ FinishStatement(Caller)
  \/ \E c \in CountsBattery : ADC12CSTARTADD = ADC12CSTARTADD_1 /\ AdcConversionDone(c)
  \/ \E c \in CountsLight : ADC12CSTARTADD = ADC12CSTARTADD_2 /\ AdcConversionDone(c)

SpecReaders == FillInit /\ [][ReadersNext]_vars

\* what the average accessors return once the publishes of hist are complete
CompletedAverage(hist) ==
  IF Len(hist) = MAX_SAMPLES
    THEN (SumSeq(hist) % UINT_RANGE) \div MAX_SAMPLES
    ELSE LatestOf(hist)

\* C12: in every state in which a reader task can run, the accessors return
\* the values of the completed publishes: the calibrated battery value
\* published last and the light value published last, and averages over
\* rings whose slots, index and ready flag all belong to completed publishes.
C12_ReadersSeeCompletedPublishes ==
  ReaderMayRun =>
    /\ ReadBatterySense = LatestOf(battHist)
    /\ ReadBatterySenseAverage = CompletedAverage(battHist)
    /\ ReadLightSense = LatestOf(lightHist)
    /\ ReadLightSenseAverage = CompletedAverage(lightHist)
    /\ BatterySenseSampleIndex < MAX_SAMPLES /\ LightSenseSampleIndex < MAX_SAMPLES
    /\ BatterySenseAverageReady = (IF Len(battHist) = MAX_SAMPLES THEN 1 ELSE 0)
    /\ LightSenseAverageReady = (IF Len(lightHist) = MAX_SAMPLES THEN 1 ELSE 0)

\* a reader can run while the tenth battery cycle waits for the converter,
\* whose result is there already; it reads the ninth value, of count 0
C12_Witness ==
  /\ ReaderMayRun
  /\ pc[Caller] = "poll" /\ kind[Caller] = "batt" /\ ~ADC12BUSY
  /\ Len(battHist) = MAX_SAMPLES - 1
  /\ ADC12MEM[1] = ADC_MAX_COUNT /\ ReadBatterySense = MaxCalibration
  /\ ReadBatterySenseAverage = MaxCalibration

\* the states inside a publish: the battery value is not calibrated yet, or
\* the tenth slot is written with the index and ready flag not yet updated
InsidePublish ==
  \/ /\ pc[Caller] = "calibrate"
     /\ ReadBatterySense # CalibratedBatterySense(ReadBatterySense, CalibrationValid,
                                                  BatteryCalibrationValue)
  \/ /\ pc[Caller] = "wrap" /\ kind[Caller] = "batt"
     /\ BatterySenseSampleIndex = MAX_SAMPLES /\ BatterySenseAverageReady = 0
     /\ ReadBatterySenseAverage # CompletedAverage(Publish(battHist, BatterySense))

\* C15 as stated: a task that holds the mutex is suspended only in
\* WaitForAdcBusy, after its conversion has been started.
C15_YieldsOnlyInWait ==
  \A t \in Tasks : (InCycle(t) /\ pc[t] \in SuspensionPoints) => pc[t] = "poll"

\* C15: a task that holds the mutex is suspended only in WaitForAdcBusy,
\* after its conversion has been started, or, in LightSenseCycle only, in
\* the settle delay before the conversion is started.
C15_YieldsInWaitOrLightSettle ==
  \A t \in Tasks :
    (InCycle(t) /\ pc[t] \in SuspensionPoints) =>
      \/ pc[t] = "poll" /\ ADC12ON
      \/ pc[t] = "settle" /\ kind[t] = "light" /\ ~ADC12ON

\* a light cycle holds the mutex in its settle delay, the conversion not
\* started, after a battery cycle of the other task
C15_Witness ==
  \E t \in Tasks :
    /\ pc[t] = "settle" /\ kind[t] = "light"
    /\ AdcHardwareMutex = 0 /\ ~ADC12ON /\ LpmDisabled
    /\ battHist # <<>>

====
